---------------------------- MODULE Spec2Model ----------------------------
(***************************************************************************)
(* aws-apigw-jwt-auth: claim normalisation (src/src/context.ts), the       *)
(* configuration store and the API Gateway helpers with the request        *)
(* wrapper withUserContext (src/unnamed/part_003: config.ts, then aws.ts). *)
(*                                                                         *)
(* JavaScript strings are sequences of one-character strings, so that      *)
(* trim, split and JSON.parse are computed character by character.         *)
(* JavaScript values are records [t, s, a]: the type tag, the characters   *)
(* (of a string, or of the String() form of a number or boolean) and the   *)
(* entries (of an array).                                                  *)
(***************************************************************************)
EXTENDS Integers, Sequences, FiniteSets, TLC

(***************************************************************************)
(* Bounds of the model.                                                    *)
(***************************************************************************)
\* longest claim string built character by character
MaxLen == 4
\* longest claim array built entry by entry
MaxEntries == 2
\* longest list of required names handed to requireGroups / requireScopes
MaxRequired == 2

(***************************************************************************)
(* JavaScript values.                                                      *)
(***************************************************************************)
Undefined == [t |-> "undefined", s |-> <<>>, a |-> <<>>]
Null == [t |-> "null", s |-> <<>>, a |-> <<>>]
Str(cs) == [t |-> "string", s |-> cs, a |-> <<>>]
\* a number, carried with the digits String() renders it with
Num(digits) == [t |-> "number", s |-> digits, a |-> <<>>]
Bool(b) == [t |-> "boolean", s |-> IF b THEN <<"t","r","u","e">> ELSE <<"f","a","l","s","e">>, a |-> <<>>]
Obj == [t |-> "object", s |-> <<>>, a |-> <<>>]
Arr(entries) == [t |-> "array", s |-> <<>>, a |-> entries]

\* white space of String.prototype.trim and of the regular expression \s
\* (the members that can be written as a TLA+ string)
JsWhitespace == {" ", "\t", "\n", "\r", "\f"}
\* white space of the JSON grammar
JsonWhitespace == {" ", "\t", "\n", "\r"}
Digits == {"0", "1", "2", "3", "4", "5", "6", "7", "8", "9"}

SeqMin(S) == CHOOSE x \in S : \A y \in S : x <= y
SeqMax(S) == CHOOSE x \in S : \A y \in S : x >= y

\* String.prototype.trim
Trim(cs) ==
    LET keep == {i \in 1..Len(cs) : cs[i] \notin JsWhitespace}
    IN IF keep = {} THEN <<>> ELSE SubSeq(cs, SeqMin(keep), SeqMax(keep))

\* String.prototype.split(/[seps]+/): the pieces between maximal runs of
\* separator characters, the empty piece before a leading run and after a
\* trailing run included
RECURSIVE SplitFrom(_, _, _, _)
SplitFrom(cs, i, seps, cur) ==
    IF i > Len(cs) THEN <<cur>>
    ELSE IF cs[i] \in seps
         THEN LET rest == {j \in i..Len(cs) : cs[j] \notin seps}
                  next == IF rest = {} THEN Len(cs) + 1 ELSE SeqMin(rest)
              IN <<cur>> \o SplitFrom(cs, next, seps, <<>>)
         ELSE SplitFrom(cs, i + 1, seps, Append(cur, cs[i]))

Split(cs, seps) == SplitFrom(cs, 1, seps, <<>>)

\* Array.prototype.join(","), as Array.prototype.toString does it: null and
\* undefined entries render as the empty string
RECURSIVE StringOf(_)
RECURSIVE JoinComma(_)
JoinComma(entries) ==
    IF entries = <<>> THEN <<>>
    ELSE LET e == Head(entries)
             first == IF e.t \in {"null", "undefined"} THEN <<>> ELSE StringOf(e)
         IN IF Len(entries) = 1 THEN first
            ELSE first \o <<",">> \o JoinComma(Tail(entries))

\* String(value)
StringOf(v) ==
    CASE v.t = "string" -> v.s
      [] v.t = "number" -> v.s
      [] v.t = "boolean" -> v.s
      [] v.t = "null" -> <<"n","u","l","l">>
      [] v.t = "undefined" -> <<"u","n","d","e","f","i","n","e","d">>
      [] v.t = "object" -> <<"[","o","b","j","e","c","t"," ","O","b","j","e","c","t","]">>
      [] v.t = "array" -> JoinComma(v.a)

(***************************************************************************)
(* JSON.parse, for the texts that can be written with the characters the   *)
(* model draws claim strings from plus the literals true, false and null:  *)
(* arrays, strings without escapes, unsigned integers.  A parse returns    *)
(* [ok, v, i]: whether a value was read, the value, the next position.     *)
(***************************************************************************)
NoParse == [ok |-> FALSE, v |-> Undefined, i |-> 0]

SkipWs(cs, i) ==
    LET rest == {j \in i..Len(cs) : cs[j] \notin JsonWhitespace}
    IN IF rest = {} THEN Len(cs) + 1 ELSE SeqMin(rest)

StartsAt(cs, i, word) ==
    /\ i + Len(word) - 1 <= Len(cs)
    /\ SubSeq(cs, i, i + Len(word) - 1) = word

\* a string literal: from the quote at i to the next quote; a control
\* character inside the literal is a syntax error
ParseJsonString(cs, i) ==
    LET close == {j \in (i + 1)..Len(cs) : cs[j] = "\""}
    IN IF close = {} THEN NoParse
       ELSE LET j == SeqMin(close)
                body == SubSeq(cs, i + 1, j - 1)
            IN IF \E k \in 1..Len(body) : body[k] \in {"\t", "\n", "\r", "\f", "\\"}
               THEN NoParse
               ELSE [ok |-> TRUE, v |-> Str(body), i |-> j + 1]

\* an unsigned integer: 0, or a digit 1-9 followed by digits
ParseJsonNumber(cs, i) ==
    LET rest == {j \in i..Len(cs) : cs[j] \notin Digits}
        end == IF rest = {} THEN Len(cs) + 1 ELSE SeqMin(rest)
        digits == SubSeq(cs, i, end - 1)
    IN IF cs[i] = "0" /\ Len(digits) > 1
       THEN [ok |-> TRUE, v |-> Num(<<"0">>), i |-> i + 1]
       ELSE [ok |-> TRUE, v |-> Num(digits), i |-> end]

RECURSIVE ParseJsonValue(_, _)
RECURSIVE ParseJsonElements(_, _, _)

\* the elements of an array after its "[" (and after each ","), up to "]"
ParseJsonElements(cs, i, acc) ==
    LET e == ParseJsonValue(cs, i)
    IN IF ~e.ok THEN NoParse
       ELSE LET j == SkipWs(cs, e.i)
            IN IF j > Len(cs) THEN NoParse
               ELSE IF cs[j] = "]" THEN [ok |-> TRUE, v |-> Arr(Append(acc, e.v)), i |-> j + 1]
               ELSE IF cs[j] = "," THEN ParseJsonElements(cs, j + 1, Append(acc, e.v))
               ELSE NoParse

ParseJsonValue(cs, i0) ==
    LET i == SkipWs(cs, i0)
    IN IF i > Len(cs) THEN NoParse
       ELSE IF cs[i] = "[" THEN
              LET j == SkipWs(cs, i + 1)
              IN IF j <= Len(cs) /\ cs[j] = "]"
                 THEN [ok |-> TRUE, v |-> Arr(<<>>), i |-> j + 1]
                 ELSE ParseJsonElements(cs, i + 1, <<>>)
       ELSE IF cs[i] = "\"" THEN ParseJsonString(cs, i)
       ELSE IF cs[i] \in Digits THEN ParseJsonNumber(cs, i)
       ELSE IF StartsAt(cs, i, <<"n","u","l","l">>) THEN [ok |-> TRUE, v |-> Null, i |-> i + 4]
       ELSE IF StartsAt(cs, i, <<"t","r","u","e">>) THEN [ok |-> TRUE, v |-> Bool(TRUE), i |-> i + 4]
       ELSE IF StartsAt(cs, i, <<"f","a","l","s","e">>) THEN [ok |-> TRUE, v |-> Bool(FALSE), i |-> i + 5]
       ELSE NoParse

\* JSON.parse(text): one value, white space around it, nothing after it;
\* ok = FALSE is the SyntaxError
JsonParse(cs) ==
    LET r == ParseJsonValue(cs, 1)
    IN IF r.ok /\ SkipWs(cs, r.i) > Len(cs) THEN r ELSE NoParse

(***************************************************************************)
(* src/src/context.ts                                                      *)
(***************************************************************************)
Map(f(_), seq) == [i \in 1..Len(seq) |-> f(seq[i])]

NonEmpty(cs) == cs # <<>>

\* Array.from(new Set(values)): the first occurrence of each value, in order
RECURSIVE Dedupe(_, _)
Dedupe(seq, seen) ==
    IF seq = <<>> THEN <<>>
    ELSE IF Head(seq) \in seen THEN Dedupe(Tail(seq), seen)
    ELSE <<Head(seq)>> \o Dedupe(Tail(seq), seen \cup {Head(seq)})

\* mutant: the Set is left out
toTrimmedStrings_NoDedupe(values) ==
    SelectSeq(Map(Trim, Map(StringOf, values)), NonEmpty)

toTrimmedStrings(values) ==
    LET strings == Map(StringOf, values)
        trimmed == Map(Trim, strings)
        normalized == SelectSeq(trimmed, NonEmpty)
    IN Dedupe(normalized, {})

\* inner.split(separators).map(part => part.trim()).filter(Boolean)
SplitParts(cs, separators) ==
    SelectSeq(Map(Trim, Split(cs, separators)), NonEmpty)

\* mutant: every bracket is removed
NotBracket(c) == c \notin {"[", "]"}
StripBrackets_Every(cs) == SelectSeq(cs, NotBracket)

\* trimmed.replaceAll(/(?:^\[|\]$)/g, ''): a "[" at the start and a "]" at
\* the end are removed, one of each at most
StripBrackets(cs) ==
    LET from == IF Len(cs) >= 1 /\ cs[1] = "[" THEN 2 ELSE 1
        to == IF Len(cs) >= from /\ cs[Len(cs)] = "]" THEN Len(cs) - 1 ELSE Len(cs)
    IN SubSeq(cs, from, to)

StringOfTrimmed(v) == Trim(StringOf(v))

\* the candidate tokens of a claim string, as strings (values of type string)
parseStringList(value, separators) ==
    LET trimmed == Trim(value)
        parsed == JsonParse(trimmed)
        inner == Trim(StripBrackets(trimmed))
    IN IF trimmed = <<>> THEN <<>>
       ELSE IF trimmed[1] = "["
       THEN IF parsed.ok /\ parsed.v.t = "array"
            THEN SelectSeq(Map(StringOfTrimmed, parsed.v.a), NonEmpty)
            ELSE IF inner = <<>> THEN <<>>
            ELSE SplitParts(inner, separators)
       ELSE SplitParts(trimmed, separators)

normalizeStringOrArray(value, separators) ==
    IF value.t = "array" THEN toTrimmedStrings(value.a)
    ELSE IF value.t = "string"
    THEN toTrimmedStrings(Map(Str, parseStringList(value.s, separators)))
    ELSE <<>>

normalizeGroups(value) == normalizeStringOrArray(value, JsWhitespace \cup {","})
\* mutant: scopes split on commas as groups do
normalizeScopes_CommaSplit(value) == normalizeStringOrArray(value, JsWhitespace \cup {","})
normalizeScopes(value) == normalizeStringOrArray(value, JsWhitespace)

\* mutant: the string is tested and returned untrimmed
pickString_NoTrim(value) ==
    IF value.t # "string" THEN Undefined
    ELSE IF Len(value.s) > 0 THEN Str(value.s) ELSE Undefined

\* the trimmed string as a value, or undefined
pickString(value) ==
    IF value.t # "string" THEN Undefined
    ELSE IF Len(Trim(value.s)) > 0 THEN Str(Trim(value.s)) ELSE Undefined

\* a completion: a returned value, or a thrown error
NoError == [class |-> "none", statusCode |-> 0, message |-> ""]
Return(v) == [kind |-> "return", value |-> v, error |-> NoError]
Throw(e) == [kind |-> "throw", value |-> Undefined, error |-> e]

(***************************************************************************)
(* src/src/errors.ts                                                       *)
(***************************************************************************)
UnauthenticatedError(message) ==
    [class |-> "UnauthenticatedError", statusCode |-> 401, message |-> message]
ForbiddenError(message) ==
    [class |-> "ForbiddenError", statusCode |-> 403, message |-> message]

(***************************************************************************)
(* src/src/context.ts, continued.  A claim mapping is a function from claim *)
(* keys to values; a key outside its domain reads as undefined.            *)
(***************************************************************************)
Get(rawClaims, key) == IF key \in DOMAIN rawClaims THEN rawClaims[key] ELSE Undefined

\* the identity record assembled at the end of buildUserContext: username
\* and email are set only when pickString found a string
UserContextOf(sub, groups, scopes, rawClaims, username, email) ==
    [sub |-> sub, groups |-> groups, scopes |-> scopes, rawClaims |-> rawClaims,
     username |-> username, email |-> email]

\* mutant: the claim keys are the defaults whatever the configuration
buildUserContext_DefaultKeys(rawClaims, config) ==
    LET sub == pickString(Get(rawClaims, "sub"))
    IN IF sub = Undefined
       THEN Throw(UnauthenticatedError("Missing sub claim"))
       ELSE Return(UserContextOf(sub.s,
                                 normalizeGroups(Get(rawClaims, "cognito:groups")),
                                 normalizeScopes(Get(rawClaims, "scope")),
                                 rawClaims,
                                 pickString(Get(rawClaims, "username")),
                                 pickString(Get(rawClaims, "email"))))

\* buildUserContext(rawClaims), reading the configuration record config
buildUserContext(rawClaims, config) ==
    LET sub == pickString(Get(rawClaims, "sub"))
        groups == normalizeGroups(Get(rawClaims, config.groupClaimKey))
        scopes == normalizeScopes(Get(rawClaims, config.scopeClaimKey))
        username == pickString(Get(rawClaims, "username"))
        email == pickString(Get(rawClaims, "email"))
    IN IF sub = Undefined
       THEN Throw(UnauthenticatedError("Missing sub claim"))
       ELSE Return(UserContextOf(sub.s, groups, scopes, rawClaims, username, email))

Includes(seq, x) == \E i \in 1..Len(seq) : seq[i] = x

userInGroup(user, group) == Includes(user.groups, group)
\* mutant: every instead of some
userInAnyGroup_Every(user, groups) == \A i \in 1..Len(groups) : userInGroup(user, groups[i])
userInAnyGroup(user, groups) == \E i \in 1..Len(groups) : userInGroup(user, groups[i])
hasScope(user, scope) == Includes(user.scopes, scope)
hasAnyScope(user, scopes) == \E i \in 1..Len(scopes) : hasScope(user, scopes[i])

\* Array.isArray(required) ? required : [required]; required is a string
\* value or an array of string values, the names are their characters
RequiredNames(required) ==
    IF required.t = "array" THEN [i \in 1..Len(required.a) |-> required.a[i].s]
    ELSE <<required.s>>

requireGroups(user, required) ==
    LET groups == RequiredNames(required)
    IN IF Len(groups) = 0 THEN Return(user)
       ELSE IF ~userInAnyGroup(user, groups)
       THEN Throw(ForbiddenError("User is not in the required group"))
       ELSE Return(user)

\* mutant: the empty list is not let through
requireScopes_NoEmptyCase(user, required) ==
    IF ~hasAnyScope(user, RequiredNames(required))
    THEN Throw(ForbiddenError("User does not have the required scope"))
    ELSE Return(user)

requireScopes(user, required) ==
    LET scopes == RequiredNames(required)
    IN IF Len(scopes) = 0 THEN Return(user)
       ELSE IF ~hasAnyScope(user, scopes)
       THEN Throw(ForbiddenError("User does not have the required scope"))
       ELSE Return(user)

(***************************************************************************)
(* src/unnamed/part_003, lines 1-24: the configuration store (config.ts).  *)
(* A configuration object is a record; Partial<AuthConfig> is a function   *)
(* whose domain is the set of the fields it supplies.                      *)
(***************************************************************************)
defaultConfig == [groupClaimKey |-> "cognito:groups", scopeClaimKey |-> "scope"]

\* mutant: { ...defaultConfig, ...options }
SpreadConfig_OverDefaults(current, options) ==
    [groupClaimKey |-> IF "groupClaimKey" \in DOMAIN options
                       THEN options["groupClaimKey"] ELSE defaultConfig.groupClaimKey,
     scopeClaimKey |-> IF "scopeClaimKey" \in DOMAIN options
                       THEN options["scopeClaimKey"] ELSE defaultConfig.scopeClaimKey]

\* { ...current, ...options }
SpreadConfig(current, options) ==
    [groupClaimKey |-> IF "groupClaimKey" \in DOMAIN options
                       THEN options["groupClaimKey"] ELSE current.groupClaimKey,
     scopeClaimKey |-> IF "scopeClaimKey" \in DOMAIN options
                       THEN options["scopeClaimKey"] ELSE current.scopeClaimKey]

(***************************************************************************)
(* src/unnamed/part_003, lines 26-101: the API Gateway helpers (aws.ts).   *)
(* An event is [authorizer, jwt, claims]: whether requestContext.authorizer *)
(* is there, its jwt member ([present, claims]) and its claims member.  A  *)
(* claims member is [t, map]: the type of the value and, for an object,    *)
(* the claim mapping.                                                      *)
(***************************************************************************)
NoClaims == [t |-> "undefined", map |-> <<>>]
ClaimsObject(map) == [t |-> "object", map |-> map]
ClaimsOfType(type) == [t |-> type, map |-> <<>>]

\* !claims || typeof claims !== 'object'; a string stands for a non-empty one
ensureObjectClaims(claims) ==
    IF claims.t \in {"undefined", "null"} \/ claims.t # "object"
    THEN Throw(UnauthenticatedError("Authorizer claims missing or malformed"))
    ELSE Return(claims.map)

\* event?.requestContext?.authorizer?.claims
RestClaimsOf(event) == IF event.authorizer THEN event.claims ELSE NoClaims
\* event?.requestContext?.authorizer?.jwt?.claims
HttpClaimsOf(event) ==
    IF event.authorizer /\ event.jwt.present THEN event.jwt.claims ELSE NoClaims

extractRestClaims(event) == ensureObjectClaims(RestClaimsOf(event))
extractHttpClaims(event) == ensureObjectClaims(HttpClaimsOf(event))

userContextFromRestEvent(event, config) ==
    LET claims == extractRestClaims(event)
    IN IF claims.kind = "throw" THEN claims ELSE buildUserContext(claims.value, config)

userContextFromHttpEvent(event, config) ==
    LET claims == extractHttpClaims(event)
    IN IF claims.kind = "throw" THEN claims ELSE buildUserContext(claims.value, config)

\* Boolean(event?.requestContext?.authorizer?.jwt)
isHttpJwtEvent(event) == event.authorizer /\ event.jwt.present

\* mutant: an HTTP event without usable jwt claims is read as a REST event
userContextFromEvent_Fallback(event, config) ==
    IF isHttpJwtEvent(event) /\ extractHttpClaims(event).kind = "return"
    THEN userContextFromHttpEvent(event, config)
    ELSE userContextFromRestEvent(event, config)

userContextFromEvent(event, config) ==
    IF isHttpJwtEvent(event) THEN userContextFromHttpEvent(event, config)
    ELSE userContextFromRestEvent(event, config)

requireUser(event, config) == userContextFromEvent(event, config)

\* JSON.stringify({ message }) for a message without characters to escape
StringifyMessage(message) == "{\"message\":\"" \o message \o "\"}"

buildResponse(statusCode, message) ==
    [statusCode |-> statusCode,
     headers |-> [ContentType |-> "application/json"],
     body |-> StringifyMessage(message)]

unauthenticatedResponse(event) == buildResponse(401, "Unauthorized")
\* mutant: the forbidden response is built like the unauthenticated one
forbiddenResponse_Unauthorized(event) == buildResponse(401, "Unauthorized")
forbiddenResponse(event) == buildResponse(403, "Forbidden")

\* how the promise of a wrapped call settles
Pending == [kind |-> "pending", response |-> buildResponse(0, ""), error |-> NoError]
Resolve(response) == [kind |-> "resolved", response |-> response, error |-> NoError]
Reject(error) == [kind |-> "rejected", response |-> buildResponse(0, ""), error |-> error]

\* mutant: the error kinds are told by status code instead of by class
CatchAuthError_ByStatusCode(error, event) ==
    IF error.statusCode = 401 THEN Resolve(unauthenticatedResponse(event))
    ELSE IF error.statusCode = 403 THEN Resolve(forbiddenResponse(event))
    ELSE Reject(error)

\* mutant: only the forbidden kind is caught
CatchAuthError_ForbiddenOnly(error, event) ==
    IF error.class = "ForbiddenError" THEN Resolve(forbiddenResponse(event))
    ELSE Reject(error)

\* the catch block of withUserContext
CatchAuthError(error, event) ==
    IF error.class = "UnauthenticatedError" THEN Resolve(unauthenticatedResponse(event))
    ELSE IF error.class = "ForbiddenError" THEN Resolve(forbiddenResponse(event))
    ELSE Reject(error)

\* mutant: the wrapper rebuilds the handler's response with its own headers
AwaitHandler_OwnHeaders(completion, event) ==
    IF completion.kind = "return"
    THEN Resolve([statusCode |-> completion.value.statusCode,
                  headers |-> [ContentType |-> "application/json"],
                  body |-> completion.value.body])
    ELSE CatchAuthError(completion.error, event)

\* return await handler(event, user), inside the try block: the handler's
\* response is returned, what it throws goes to the catch block
AwaitHandler(completion, event) ==
    IF completion.kind = "return" THEN Resolve(completion.value)
    ELSE CatchAuthError(completion.error, event)

(***************************************************************************)
(* The inputs the model draws from.                                        *)
(***************************************************************************)
\* the characters claim strings are built from
Alphabet == {"a", "1", " ", ",", "[", "]", "\""}
\* the entries claim arrays are built from
EntryChoices == {Str(<<"a">>), Str(<<" ", "a">>), Str(<<"1">>), Str(<<>>), Num(<<"1">>), Null}
\* the opening of a JSON array text: a claim string is up to MaxLen
\* characters, or an opening followed by up to MaxLen characters
Openings == {<<"[", "1", ",">>}
\* where a claim value under construction starts: a value of each type, the
\* empty string, the empty array and the openings
ValueSeeds ==
    {Str(<<>>), Arr(<<>>), Undefined, Null, Num(<<"1">>), Bool(TRUE), Obj}
    \cup {Str(o) : o \in Openings}
\* the characters of a claim string that follow its opening, if it has one
CharsBuilt(cs) ==
    IF \E o \in Openings : StartsAt(cs, 1, o)
    THEN Len(cs) - Len(CHOOSE o \in Openings : StartsAt(cs, 1, o))
    ELSE Len(cs)
\* the claim keys configureAuth is called with
GroupKeyChoices == {"cognito:groups", "roles"}
ScopeKeyChoices == {"scope", "permissions"}
\* the configurations buildUserContext is called under directly: the defaults,
\* and custom keys of which one collides with sub
BuildConfigs == {defaultConfig, [groupClaimKey |-> "roles", scopeClaimKey |-> "sub"]}
\* Partial<AuthConfig>: no field, one field or both
OptionChoices ==
    {<<>>}
    \cup {("groupClaimKey" :> g) : g \in GroupKeyChoices}
    \cup {("scopeClaimKey" :> s) : s \in ScopeKeyChoices}
    \cup {("groupClaimKey" :> g) @@ ("scopeClaimKey" :> s) :
            g \in GroupKeyChoices, s \in ScopeKeyChoices}
\* group and scope names
Names == {<<"a">>, <<"b">>, <<"c">>}
NameLists == UNION {[1..n -> Names] : n \in 0..MaxRequired}
\* what requireGroups / requireScopes is called with: a name or a list
RequiredChoices ==
    {Str(n) : n \in Names} \cup {Arr([i \in 1..Len(l) |-> Str(l[i])]) : l \in NameLists}

\* claim mappings of the wrapped requests
ValidSub == Str(<<" ", "u", "1">>)
ClaimsFull ==
    ("sub" :> ValidSub) @@ ("username" :> Str(<<"n">>)) @@ ("email" :> Num(<<"1">>))
    @@ ("cognito:groups" :> Str(<<"a", ",", " ", "b", ",", "a">>))
    @@ ("scope" :> Str(<<"a", " ", "c">>))
    @@ ("roles" :> Arr(<<Str(<<"c">>)>>))
ClaimsNoSub == ("sub" :> Str(<<" ">>)) @@ ("cognito:groups" :> Str(<<"a">>))
Jwt(claims) == [present |-> TRUE, claims |-> claims]
NoJwt == [present |-> FALSE, claims |-> NoClaims]
\* restEvent() of the tests: no authorizer at all
EventNoAuthorizer == [authorizer |-> FALSE, jwt |-> NoJwt, claims |-> NoClaims]
RestEvent(claims) == [authorizer |-> TRUE, jwt |-> NoJwt, claims |-> claims]
HttpEvent(claims) == [authorizer |-> TRUE, jwt |-> Jwt(claims), claims |-> NoClaims]
Events ==
    {EventNoAuthorizer,
     RestEvent(ClaimsObject(ClaimsFull)),
     HttpEvent(ClaimsObject(ClaimsFull)),
     RestEvent(ClaimsObject(ClaimsNoSub)),
     HttpEvent(ClaimsOfType("string")),
     RestEvent(ClaimsOfType("null")),
     \* the jwt structure without usable claims beside usable REST claims
     [authorizer |-> TRUE, jwt |-> Jwt(NoClaims), claims |-> ClaimsObject(ClaimsFull)]}
\* the claims of another user
ClaimsOther == ("sub" :> Str(<<"u", "2">>)) @@ ("scope" :> Str(<<"c">>))
\* what an event holds at authorizer.claims or at authorizer.jwt.claims
ClaimsChoices ==
    {NoClaims, ClaimsOfType("null"), ClaimsOfType("string"), ClaimsOfType("number"),
     ClaimsObject(ClaimsFull), ClaimsObject(ClaimsNoSub), ClaimsObject(ClaimsOther)}
\* the events requireUser is called with directly: no authorizer, or an
\* authorizer with or without the jwt structure, each claims member of every kind
EventChoices ==
    {EventNoAuthorizer}
    \cup {[authorizer |-> TRUE, jwt |-> jwt, claims |-> claims] :
              jwt \in {NoJwt} \cup {Jwt(c) : c \in ClaimsChoices}, claims \in ClaimsChoices}
\* what the caller's handler returns
HandlerResponses ==
    {[statusCode |-> 200, body |-> "{\"user\":\"u1\"}"],
     [statusCode |-> 401, body |-> "handler"]}
\* what the caller's handler throws
HandlerErrors ==
    {ForbiddenError("Forbidden"),
     UnauthenticatedError("Unauthenticated"),
     [class |-> "Error", statusCode |-> 0, message |-> "boom"],
     [class |-> "TypeError", statusCode |-> 403, message |-> "Forbidden"]}
\* what the caller's handler requires of its identity
HandlerRequirements ==
    {Str(<<"a">>), Str(<<"c">>), Arr(<<>>), Arr(<<Str(<<"b">>), Str(<<"c">>)>>)}
\* the wrapped requests in flight
Requests == {"r1", "r2"}

(***************************************************************************)
(* State.                                                                  *)
(***************************************************************************)
VARIABLES
    heap,           \* the live configuration objects, by reference
    currentConfig,  \* config.ts: the reference held by `let currentConfig`
    held,           \* the reference to a returned record the caller keeps (0: none)
    expected,       \* the configuration the configureAuth / resetConfig calls ask for
    pc,             \* per request: "idle", "handler" (the handler runs), "done"
    event,          \* per request: the event the wrapped function was called with
    user,           \* per request: `const user` of withUserContext
    configAtBuild,  \* per request: the configuration buildUserContext read
    handlerCalls,   \* per request: the arguments of each call of the handler
    handlerResult,  \* per request: how the handler completed
    outcome,        \* per request: how the promise of the wrapped call settled
    claimValue,     \* a claim value under construction
    built,          \* the last buildUserContext call: arguments and completion
    checked,        \* the last requireGroups / requireScopes call
    located         \* the last requireUser call: event, configuration, completion

configVars == <<heap, currentConfig, held, expected>>
requestVars == <<pc, event, user, configAtBuild, handlerCalls, handlerResult, outcome>>
callVars == <<claimValue, built, checked, located>>
vars == <<heap, currentConfig, held, expected, pc, event, user, configAtBuild,
          handlerCalls, handlerResult, outcome, claimValue, built, checked, located>>

\* getConfig(): the object currentConfig refers to
Config == heap[currentConfig]

NoCompletion == [kind |-> "none", value |-> Undefined, error |-> NoError]
NoUser == UserContextOf(<<>>, <<>>, <<>>, <<>>, Undefined, Undefined)
NoBuild == [called |-> FALSE, rawClaims |-> <<>>, config |-> defaultConfig,
            result |-> Return(NoUser)]
NoCheck == [called |-> FALSE, fn |-> "none", user |-> NoUser, required |-> Undefined,
            result |-> Return(NoUser)]
NoLocate == [called |-> FALSE, event |-> EventNoAuthorizer, config |-> defaultConfig,
             result |-> Return(NoUser)]

\* let currentConfig = { ...defaultConfig }
InitConfig ==
    /\ heap = (1 :> defaultConfig)
    /\ currentConfig = 1
    /\ held = 0
    /\ expected = defaultConfig

InitRequests ==
    /\ pc = [r \in Requests |-> "idle"]
    /\ event = [r \in Requests |-> EventNoAuthorizer]
    /\ user = [r \in Requests |-> NoUser]
    /\ configAtBuild = [r \in Requests |-> defaultConfig]
    /\ handlerCalls = [r \in Requests |-> <<>>]
    /\ handlerResult = [r \in Requests |-> NoCompletion]
    /\ outcome = [r \in Requests |-> Pending]

InitCalls ==
    /\ claimValue = Undefined
    /\ built = NoBuild
    /\ checked = NoCheck
    /\ located = NoLocate

Init == InitConfig /\ InitRequests /\ InitCalls

(***************************************************************************)
(* The configuration store.  An object literal allocates a new object: it  *)
(* takes the least reference that is not live.  Only the objects reachable *)
(* from currentConfig or from the caller are kept in heap.                 *)
(***************************************************************************)
FreshRef == CHOOSE ref \in 1..3 :
                /\ ref \notin {currentConfig, held}
                /\ \A other \in 1..3 : other \notin {currentConfig, held} => ref <= other

\* a configuration with the supplied fields laid over it, field by field
Overlay(config, options) ==
    LET field(f) == IF f \in DOMAIN options THEN options[f] ELSE config[f]
    IN [groupClaimKey |-> field("groupClaimKey"), scopeClaimKey |-> field("scopeClaimKey")]

\* configureAuth(options): a new object replaces the current one and is
\* returned; the caller keeps the returned reference or drops it
ConfigureAuth(options, keep) ==
    LET new == FreshRef
        kept == IF keep THEN new ELSE held
    IN /\ currentConfig' = new
       /\ held' = kept
       /\ heap' = [ref \in {new, kept} \ {0} |->
                     IF ref = new THEN SpreadConfig(Config, options) ELSE heap[ref]]
       /\ expected' = Overlay(expected, options)
       /\ UNCHANGED <<requestVars, callVars>>

\* resetConfig(): a new copy of the defaults replaces the current object
ResetConfig ==
    LET new == FreshRef
    IN /\ currentConfig' = new
       /\ heap' = [ref \in {new, held} \ {0} |->
                     IF ref = new THEN defaultConfig ELSE heap[ref]]
       /\ expected' = defaultConfig
       /\ UNCHANGED <<held, requestVars, callVars>>

\* getConfig(): the current object itself is returned, and the caller keeps it
GetConfig ==
    /\ held' = currentConfig
    /\ heap' = [ref \in {currentConfig} |-> heap[ref]]
    /\ UNCHANGED <<currentConfig, expected, requestVars, callVars>>

\* the caller assigns to a field of the record it was returned
MutateReturned(field, key) ==
    /\ held # 0
    /\ heap[held][field] # key
    /\ heap' = [heap EXCEPT ![held][field] = key]
    /\ UNCHANGED <<currentConfig, held, expected, requestVars, callVars>>

(***************************************************************************)
(* withUserContext(handler)(event)                                         *)
(***************************************************************************)
\* the wrapped function is called: requireUser runs, then either the catch
\* block settles the call or the handler is called and awaited
Invoke(r, ev) ==
    LET found == requireUser(ev, Config)
    IN /\ pc[r] = "idle"
       /\ event' = [event EXCEPT ![r] = ev]
       /\ IF found.kind = "throw"
          THEN /\ outcome' = [outcome EXCEPT ![r] = CatchAuthError(found.error, ev)]
               /\ pc' = [pc EXCEPT ![r] = "done"]
               /\ UNCHANGED <<user, configAtBuild, handlerCalls>>
          ELSE /\ user' = [user EXCEPT ![r] = found.value]
               /\ configAtBuild' = [configAtBuild EXCEPT ![r] = Config]
               /\ handlerCalls' = [handlerCalls EXCEPT
                                     ![r] = Append(@, [event |-> ev, user |-> found.value])]
               /\ pc' = [pc EXCEPT ![r] = "handler"]
               /\ UNCHANGED outcome
       /\ UNCHANGED <<handlerResult, configVars, callVars>>

\* the handler completes and the awaiting wrapper settles the call
HandlerCompletes(r, completion) ==
    /\ pc[r] = "handler"
    /\ handlerResult' = [handlerResult EXCEPT ![r] = completion]
    /\ outcome' = [outcome EXCEPT ![r] = AwaitHandler(completion, event[r])]
    /\ pc' = [pc EXCEPT ![r] = "done"]
    /\ UNCHANGED <<event, user, configAtBuild, handlerCalls, configVars, callVars>>

\* the handler returns (or its promise resolves with) a response
HandlerReturns(r, response) == HandlerCompletes(r, Return(response))

\* the handler throws (or its promise rejects with) an error
HandlerThrows(r, error) == HandlerCompletes(r, Throw(error))

\* the handler calls an enforcing check on its identity and lets a failure
\* propagate; when the check passes the handler goes on
HandlerRequires(r, fn, required) ==
    LET result == IF fn = "requireGroups" THEN requireGroups(user[r], required)
                  ELSE requireScopes(user[r], required)
    IN /\ result.kind = "throw"
       /\ HandlerCompletes(r, result)

(***************************************************************************)
(* Direct calls of the pure functions.                                     *)
(***************************************************************************)
\* buildUserContext(rawClaims) is called under the current configuration
BuildCall(rawClaims) ==
    /\ built' = [called |-> TRUE, rawClaims |-> rawClaims, config |-> Config,
                 result |-> buildUserContext(rawClaims, Config)]
    /\ UNCHANGED <<claimValue, checked, located, configVars, requestVars>>

\* requireUser(event) is called under the current configuration
RequireUserCall(ev) ==
    /\ located' = [called |-> TRUE, event |-> ev, config |-> Config,
                   result |-> requireUser(ev, Config)]
    /\ UNCHANGED <<claimValue, built, checked, configVars, requestVars>>

\* requireGroups / requireScopes is called on the identity last built
RequireCall(fn, required) ==
    /\ built.called
    /\ built.result.kind = "return"
    /\ checked' = [called |-> TRUE, fn |-> fn, user |-> built.result.value,
                   required |-> required,
                   result |-> IF fn = "requireGroups"
                              THEN requireGroups(built.result.value, required)
                              ELSE requireScopes(built.result.value, required)]
    /\ UNCHANGED <<claimValue, built, located, configVars, requestVars>>

\* one more character of a claim string, before it is handed to a call
AppendChar(c) ==
    /\ ~built.called
    /\ claimValue.t = "string"
    /\ CharsBuilt(claimValue.s) < MaxLen
    /\ claimValue' = Str(Append(claimValue.s, c))
    /\ UNCHANGED <<built, checked, located, configVars, requestVars>>

\* one more entry of a claim array
AppendEntry(e) ==
    /\ ~built.called
    /\ claimValue.t = "array"
    /\ Len(claimValue.a) < MaxEntries
    /\ claimValue' = Arr(Append(claimValue.a, e))
    /\ UNCHANGED <<built, checked, located, configVars, requestVars>>

\* the claim mapping whose username, email, group and scope claims all hold
\* value; sub holds a usable string, or value too (no sub at all when value
\* is undefined)
ClaimsAround(value, subChoice) ==
    (IF subChoice = "usable" THEN ("sub" :> ValidSub)
     ELSE IF value = Undefined THEN <<>> ELSE ("sub" :> value))
    @@ ("username" :> value) @@ ("email" :> value)
    @@ ("cognito:groups" :> value) @@ ("scope" :> value)
    @@ ("roles" :> Arr(<<Str(<<"c">>)>>))
SubChoices == {"usable", "value"}

\* the claim mapping of an identity with the given group and scope names
ClaimsOfNames(groups, scopes) ==
    ("sub" :> ValidSub)
    @@ ("cognito:groups" :> Arr([i \in 1..Len(groups) |-> Str(groups[i])]))
    @@ ("scope" :> Arr([i \in 1..Len(scopes) |-> Str(scopes[i])]))

(***************************************************************************)
(* Specifications.                                                         *)
(***************************************************************************)
\* wrapped requests in flight while the configuration is set and reset
Next ==
    \/ \E options \in OptionChoices : ConfigureAuth(options, FALSE)
    \/ ResetConfig
    \/ \E r \in Requests, ev \in Events : Invoke(r, ev)
    \/ \E r \in Requests, response \in HandlerResponses : HandlerReturns(r, response)
    \/ \E r \in Requests, error \in HandlerErrors : HandlerThrows(r, error)
    \/ \E r \in Requests, fn \in {"requireGroups", "requireScopes"},
          required \in HandlerRequirements : HandlerRequires(r, fn, required)

Spec == Init /\ [][Next]_vars

\* the configuration store under configureAuth, resetConfig and getConfig
\* calls, read by buildUserContext
NextStore ==
    \/ \E options \in OptionChoices, keep \in BOOLEAN : ConfigureAuth(options, keep)
    \/ ResetConfig
    \/ GetConfig
    \/ BuildCall(ClaimsFull)

SpecStore == Init /\ [][NextStore]_vars

\* the same, with a caller that writes to the records it was returned
NextCaller ==
    \/ NextStore
    \/ \E key \in GroupKeyChoices : MutateReturned("groupClaimKey", key)
    \/ \E key \in ScopeKeyChoices : MutateReturned("scopeClaimKey", key)

SpecCaller == Init /\ [][NextCaller]_vars

\* buildUserContext on claim values of every shape, under every configuration
InitBuild ==
    /\ \E config \in BuildConfigs :
          /\ heap = (1 :> config)
          /\ expected = config
    /\ currentConfig = 1
    /\ held = 0
    /\ InitRequests
    /\ claimValue \in ValueSeeds
    /\ built = NoBuild
    /\ checked = NoCheck
    /\ located = NoLocate

NextBuild ==
    \/ \E c \in Alphabet : AppendChar(c)
    \/ \E e \in EntryChoices : AppendEntry(e)
    \/ \E subChoice \in SubChoices : BuildCall(ClaimsAround(claimValue, subChoice))

SpecBuild == InitBuild /\ [][NextBuild]_vars

\* requireGroups and requireScopes on identities of every group and scope list
InitCheck ==
    /\ InitConfig
    /\ InitRequests
    /\ claimValue = Undefined
    /\ \E groups \in NameLists, scopes \in NameLists :
          built = [called |-> TRUE, rawClaims |-> ClaimsOfNames(groups, scopes),
                   config |-> defaultConfig,
                   result |-> buildUserContext(ClaimsOfNames(groups, scopes), defaultConfig)]
    /\ checked = NoCheck
    /\ located = NoLocate

NextCheck ==
    \E fn \in {"requireGroups", "requireScopes"}, required \in RequiredChoices :
        RequireCall(fn, required)

SpecCheck == InitCheck /\ [][NextCheck]_vars

\* requireUser on events of every shape, under every configuration
InitEvent ==
    /\ \E config \in BuildConfigs :
          /\ heap = (1 :> config)
          /\ expected = config
    /\ currentConfig = 1
    /\ held = 0
    /\ InitRequests
    /\ InitCalls

NextEvent == \E ev \in EventChoices : RequireUserCall(ev)

SpecEvent == InitEvent /\ [][NextEvent]_vars

(***************************************************************************)
(* The claims.                                                             *)
(***************************************************************************)
Response401Body == "{\"message\":\"Unauthorized\"}"
Response403Body == "{\"message\":\"Forbidden\"}"
ResolvedWith(o, statusCode, body) ==
    /\ o.kind = "resolved"
    /\ o.response.statusCode = statusCode
    /\ o.response.body = body

HandlerThrew(r) == handlerResult[r].kind = "throw"

\* C1 as stated: whatever the handler raises that is not of the forbidden
\* kind, an UnauthenticatedError included, rejects the wrapped call with that
\* same value
C1_NonForbiddenPropagates ==
    \A r \in Requests :
        (HandlerThrew(r) /\ handlerResult[r].error.class # "ForbiddenError")
            => outcome[r] = Reject(handlerResult[r].error)

\* C1 amended: a value raised by the handler that is of neither the forbidden
\* nor the unauthenticated kind rejects the wrapped call with that same value
\* and no response; an UnauthenticatedError raised by the handler is caught
\* and answered with 401
C1_OtherErrorsPropagate ==
    \A r \in Requests :
        HandlerThrew(r) =>
            /\ handlerResult[r].error.class \notin {"ForbiddenError", "UnauthenticatedError"}
                   => outcome[r] = Reject(handlerResult[r].error)
            /\ handlerResult[r].error.class = "UnauthenticatedError"
                   => ResolvedWith(outcome[r], 401, Response401Body)

C1_Witness ==
    \E r \in Requests :
        /\ Len(handlerCalls[r]) = 1
        /\ handlerResult[r] = Throw([class |-> "TypeError", statusCode |-> 403,
                                     message |-> "Forbidden"])
        /\ outcome[r].kind = "rejected"

Present(names, list) ==
    \E i \in 1..Len(names), j \in 1..Len(list) : names[i] = list[j]
NamesOf(required) ==
    IF required.t = "array" THEN [i \in 1..Len(required.a) |-> required.a[i].s]
    ELSE <<required.s>>
CheckedSet == IF checked.fn = "requireGroups" THEN checked.user.groups
              ELSE checked.user.scopes
CheckRaisesForbidden ==
    /\ checked.result.kind = "throw"
    /\ checked.result.error.class = "ForbiddenError"

\* C2 as stated: requireGroups / requireScopes raises ForbiddenError iff none
\* of the required names is in the identity's set, the empty list included
C2_RaisesIffNonePresent ==
    checked.called =>
        (CheckRaisesForbidden <=> ~Present(NamesOf(checked.required), CheckedSet))

\* C2 amended: requireGroups / requireScopes raises ForbiddenError iff the
\* list of required names is not empty and none of them is in the set
C2_RaisesIffNonEmptyAndNonePresent ==
    checked.called =>
        (CheckRaisesForbidden <=>
            /\ NamesOf(checked.required) # <<>>
            /\ ~Present(NamesOf(checked.required), CheckedSet))

C2_Witness ==
    /\ checked.called
    /\ checked.fn = "requireGroups"
    /\ Len(NamesOf(checked.required)) = 2
    /\ Len(checked.user.groups) = 2
    /\ Present(NamesOf(checked.required), CheckedSet)
    /\ ~Present(<<NamesOf(checked.required)[1]>>, CheckedSet)
    /\ checked.result.kind = "return"

\* C3 as stated: getConfig returns a snapshot.  A step in which the caller
\* changes the record it was returned changes nothing a later getConfig or
\* buildUserContext call reads, and a configureAuth or resetConfig step
\* changes no record returned earlier
C3_ReturnedRecordIsSnapshot ==
    [][/\ (held # 0 /\ held' = held /\ currentConfig' = currentConfig
             /\ heap'[held] # heap[held])
          => heap'[currentConfig'] = heap[currentConfig]
       /\ (held # 0 /\ held' = held /\ currentConfig' # currentConfig)
          => heap'[held] = heap[held]]_vars

ClaimsLocated(ev) ==
    IF ~ev.authorizer THEN NoClaims
    ELSE IF ev.jwt.present THEN ev.jwt.claims ELSE ev.claims
IsBlank(cs) == \A i \in 1..Len(cs) : cs[i] \in JsWhitespace
SubUnusable(rawClaims) ==
    \/ "sub" \notin DOMAIN rawClaims
    \/ rawClaims["sub"].t # "string"
    \/ IsBlank(rawClaims["sub"].s)
NoUsableClaims(ev) ==
    \/ ClaimsLocated(ev).t # "object"
    \/ SubUnusable(ClaimsLocated(ev).map)

\* C4: a wrapped call on an event without usable claims resolves with status
\* 401 and the body {"message":"Unauthorized"}, and the handler is not called
C4_NoUsableClaimsGives401 ==
    \A r \in Requests :
        (pc[r] # "idle" /\ NoUsableClaims(event[r])) =>
            /\ pc[r] = "done"
            /\ ResolvedWith(outcome[r], 401, Response401Body)
            /\ handlerCalls[r] = <<>>
            /\ handlerResult[r] = NoCompletion

C4_Witness ==
    \E r \in Requests :
        /\ event[r] = RestEvent(ClaimsObject(ClaimsNoSub))
        /\ pc[r] = "done"
        /\ outcome[r].response.statusCode = 401

\* C5: when the handler raises the forbidden kind, itself or through
\* requireGroups / requireScopes, the wrapped call resolves with status 403
\* and the body {"message":"Forbidden"}
C5_ForbiddenGives403 ==
    \A r \in Requests :
        (HandlerThrew(r) /\ handlerResult[r].error.class = "ForbiddenError")
            => ResolvedWith(outcome[r], 403, Response403Body)

C5_Witness ==
    \E r \in Requests :
        /\ handlerResult[r] = Throw(ForbiddenError("User does not have the required scope"))
        /\ outcome[r].response.statusCode = 403

\* C6: with usable claims the handler is called once, with the event and the
\* identity built from it; the wrapped call stays pending while the handler
\* runs and, when the handler returns, resolves with the returned response
C6_HandlerResponseUnchanged ==
    \A r \in Requests :
        /\ pc[r] = "handler" => outcome[r] = Pending
        /\ (pc[r] # "idle" /\ ~NoUsableClaims(event[r])) =>
              handlerCalls[r] =
                  <<[event |-> event[r],
                     user |-> buildUserContext(ClaimsLocated(event[r]).map,
                                               configAtBuild[r]).value]>>
        /\ handlerResult[r].kind = "return" =>
              /\ pc[r] = "done"
              /\ outcome[r].kind = "resolved"
              /\ outcome[r].response = handlerResult[r].value

C6_Witness ==
    \E r \in Requests :
        /\ event[r] = HttpEvent(ClaimsObject(ClaimsFull))
        /\ Len(handlerCalls[r]) = 1
        /\ handlerCalls[r][1].user.groups = << <<"c">> >>
        /\ handlerResult[r].kind = "return"
        /\ outcome[r] = Resolve([statusCode |-> 401, body |-> "handler"])

BuildRaisesUnauthenticated ==
    /\ built.result.kind = "throw"
    /\ built.result.error.class = "UnauthenticatedError"

\* C7: buildUserContext raises the unauthenticated kind iff sub is absent, not
\* a string or blank; otherwise it returns an identity whose sub is the
\* trimmed sub claim, which is not empty
C7_RaisesIffSubUnusable ==
    built.called =>
        IF SubUnusable(built.rawClaims)
        THEN BuildRaisesUnauthenticated
        ELSE /\ built.result.kind = "return"
             /\ built.result.value.sub = Trim(built.rawClaims["sub"].s)
             /\ built.result.value.sub # <<>>

C7_Witness ==
    /\ built.called
    /\ built.config.scopeClaimKey = "sub"
    /\ Get(built.rawClaims, "sub") = Str(<<" ", "a", ",", " ">>)
    /\ built.result.kind = "return"
    /\ built.result.value.sub = <<"a", ",">>

\* the candidate tokens of a claim value, trimmed, the empty ones left out
CandidateTokens(value, separators) ==
    LET tokens == IF value.t = "array" THEN Map(StringOf, value.a)
                  ELSE IF value.t = "string" THEN parseStringList(value.s, separators)
                  ELSE <<>>
    IN SelectSeq(Map(Trim, tokens), NonEmpty)
FirstIndex(seq, x) == SeqMin({k \in 1..Len(seq) : seq[k] = x})
Normalised(list, tokens) ==
    /\ \A i \in 1..Len(list) :
          /\ ~IsBlank(list[i])
          /\ list[i] = Trim(list[i])
          /\ Includes(tokens, list[i])
    /\ \A k \in 1..Len(tokens) : Includes(list, tokens[k])
    /\ \A i, j \in 1..Len(list) :
          i < j => /\ list[i] # list[j]
                   /\ FirstIndex(tokens, list[i]) < FirstIndex(tokens, list[j])

\* C8: the groups and the scopes of a built identity hold no blank entry,
\* only trimmed entries, no entry twice, and exactly the candidate tokens of
\* the claim value in the order of their first occurrence
C8_GroupsAndScopesNormalised ==
    (built.called /\ built.result.kind = "return") =>
        /\ Normalised(built.result.value.groups,
                      CandidateTokens(Get(built.rawClaims, built.config.groupClaimKey),
                                      JsWhitespace \cup {","}))
        /\ Normalised(built.result.value.scopes,
                      CandidateTokens(Get(built.rawClaims, built.config.scopeClaimKey),
                                      JsWhitespace))

C8_Witness ==
    /\ built.called
    /\ built.result.kind = "return"
    /\ built.config = defaultConfig
    /\ Get(built.rawClaims, "scope") = Str(<<"[", "1", ",", " ", "a", " ", "1">>)
    /\ built.result.value.groups = << <<"1">>, <<"a">> >>
    /\ built.result.value.scopes = << <<"1", ",">>, <<"a">>, <<"1">> >>

\* C9: requireGroups and requireScopes with the empty list raise nothing and
\* return the identity they were given, no field changed
C9_EmptyRequirementPasses ==
    (checked.called /\ NamesOf(checked.required) = <<>>)
        => checked.result = Return(checked.user)

C9_Witness ==
    /\ checked.called
    /\ checked.fn = "requireScopes"
    /\ checked.required = Arr(<<>>)
    /\ checked.user.scopes = <<>>
    /\ checked.user.groups # <<>>
    /\ checked.result.kind = "return"

\* C10: after any configureAuth and resetConfig calls the stored
\* configuration is the defaults overlaid, in call order, with the fields
\* supplied since the last resetConfig, and the record a configureAuth call
\* hands to its caller is that configuration
C10_StoredConfigIsOverlay ==
    /\ [](Config = expected)
    /\ [][(currentConfig' # currentConfig /\ held' # held)
            => (held' = currentConfig' /\ heap'[held'] = expected')]_vars

C10_Witness ==
    /\ Config = [groupClaimKey |-> "roles", scopeClaimKey |-> "permissions"]
    /\ held # 0
    /\ held # currentConfig
    /\ heap[held] = [groupClaimKey |-> "cognito:groups", scopeClaimKey |-> "permissions"]
    /\ built.called
    /\ built.config = defaultConfig

\* the text of a claim string that is split: the trimmed string, without a
\* "[" at its start and a "]" at its end when it starts with "["
SplitText(cs) ==
    IF Trim(cs) # <<>> /\ Trim(cs)[1] = "[" THEN Trim(StripBrackets(Trim(cs))) ELSE Trim(cs)
\* the maximal runs of characters of cs that hold none of seps, in order
RunStarts(cs, seps) ==
    {i \in 1..Len(cs) : cs[i] \notin seps /\ (i = 1 \/ cs[i - 1] \in seps)}
RunEnd(cs, seps, i) ==
    SeqMax({j \in i..Len(cs) : \A k \in i..j : cs[k] \notin seps})
Runs(cs, seps) ==
    LET starts == RunStarts(cs, seps)
        nth(k) == CHOOSE i \in starts : Cardinality({j \in starts : j < i}) = k - 1
    IN [k \in 1..Cardinality(starts) |-> SubSeq(cs, nth(k), RunEnd(cs, seps, nth(k)))]
ParsesAsJsonArray(cs) ==
    /\ Trim(cs) # <<>>
    /\ Trim(cs)[1] = "["
    /\ JsonParse(Trim(cs)).ok
    /\ JsonParse(Trim(cs)).v.t = "array"
ScopeClaim == Get(built.rawClaims, built.config.scopeClaimKey)
BuiltFromScopeString ==
    /\ built.called
    /\ built.result.kind = "return"
    /\ ScopeClaim.t = "string"
ScopesAreWhitespaceRuns ==
    built.result.value.scopes = Dedupe(Runs(SplitText(ScopeClaim.s), JsWhitespace), {})

\* C11 as stated: for every string value of the scope claim the scope tokens
\* are the pieces of the string between runs of white space, so that pieces
\* joined by a comma stay one token
C11_ScopesNeverCommaSplit ==
    BuiltFromScopeString => ScopesAreWhitespaceRuns

\* C11: for every string value of the scope claim that is not the text of a
\* JSON array, the scope tokens are the pieces of the string between runs of
\* white space: a comma never separates two tokens, white space always does
C11_ScopesSplitOnWhitespaceUnlessJsonArray ==
    (BuiltFromScopeString /\ ~ParsesAsJsonArray(ScopeClaim.s)) => ScopesAreWhitespaceRuns

C11_Witness ==
    /\ BuiltFromScopeString
    /\ built.config = defaultConfig
    /\ ScopeClaim = Str(<<"a", ",", "1", " ">>)
    /\ built.result.value.scopes = << <<"a", ",", "1">> >>
    /\ built.result.value.groups = << <<"a">>, <<"1">> >>

\* a bracketed text without its first character, and without its last one
\* when that is a "]"
Unbracketed(cs) ==
    LET body == Tail(cs)
    IN IF body # <<>> /\ body[Len(body)] = "]" THEN SubSeq(body, 1, Len(body) - 1)
       ELSE body
\* the elements of a JSON array text as trimmed strings, the empty ones left out
ElementTokens(cs) == SelectSeq(Map(StringOfTrimmed, JsonParse(Trim(cs)).v.a), NonEmpty)
Bracketed(value) ==
    /\ value.t = "string"
    /\ Trim(value.s) # <<>>
    /\ Trim(value.s)[1] = "["
\* the list built from a bracketed claim string is made of the elements of
\* the JSON array, or of the pieces of the unbracketed text
BracketedListOf(list, value, separators) ==
    list = Dedupe(IF ParsesAsJsonArray(value.s) THEN ElementTokens(value.s)
                  ELSE Runs(Unbracketed(Trim(value.s)), separators), {})
GroupClaim == Get(built.rawClaims, built.config.groupClaimKey)

\* C12: a group or scope claim string whose trimmed form starts with "["
\* yields the elements of the JSON array it parses as, one token an element,
\* and otherwise the pieces of its text without one "[" at the start and at
\* most one "]" at the end, split on the separators of the claim
C12_BracketedStrings ==
    (built.called /\ built.result.kind = "return") =>
        /\ Bracketed(GroupClaim)
              => BracketedListOf(built.result.value.groups, GroupClaim, JsWhitespace \cup {","})
        /\ Bracketed(ScopeClaim)
              => BracketedListOf(built.result.value.scopes, ScopeClaim, JsWhitespace)

C12_Witness ==
    /\ built.called
    /\ built.result.kind = "return"
    /\ built.config = defaultConfig
    /\ GroupClaim = Str(<<"[", "1", ",", "[", "a", "]", "]">>)
    /\ ~ParsesAsJsonArray(GroupClaim.s)
    /\ built.result.value.groups = << <<"1">>, <<"[", "a", "]">> >>
    /\ built.result.value.scopes = << <<"1", ",", "[", "a", "]">> >>

LocateRaisesUnauthenticated ==
    /\ located.result.kind = "throw"
    /\ located.result.error.class = "UnauthenticatedError"

\* C13: requireUser reads authorizer.jwt.claims when the event has the jwt
\* structure and authorizer.claims otherwise, and never the other one: it
\* raises the unauthenticated kind when the claims at that place are not
\* usable, and otherwise builds the identity from exactly those claims
C13_ClaimsReadFromOnePath ==
    located.called =>
        IF NoUsableClaims(located.event)
        THEN LocateRaisesUnauthenticated
        ELSE /\ located.result.kind = "return"
             /\ located.result.value.rawClaims = ClaimsLocated(located.event).map
             /\ located.result.value.sub = Trim(ClaimsLocated(located.event).map["sub"].s)

C13_Witness ==
    /\ located.called
    /\ located.event.authorizer
    /\ located.event.jwt = Jwt(ClaimsOfType("null"))
    /\ located.event.claims = ClaimsObject(ClaimsFull)
    /\ LocateRaisesUnauthenticated
    /\ located.result.error.message = "Authorizer claims missing or malformed"

\* the requests whose identity record has been built
HasIdentity(r) == pc[r] # "idle" /\ handlerCalls[r] # <<>>
\* the identity of request r is the one its claims give under the
\* configuration that was in force when it was built
BuiltUnderConfigAtBuild(r) ==
    LET claims == ClaimsLocated(event[r]).map
    IN /\ user[r].sub = Trim(Get(claims, "sub").s)
       /\ user[r].groups = normalizeGroups(Get(claims, configAtBuild[r].groupClaimKey))
       /\ user[r].scopes = normalizeScopes(Get(claims, configAtBuild[r].scopeClaimKey))
       /\ user[r].rawClaims = claims
       /\ handlerCalls[r][1].user = user[r]

\* C14: while requests interleave with configureAuth and resetConfig calls,
\* every identity is built under the configuration in force when its
\* buildUserContext call ran, and no later step of any request or of the
\* configuration store changes an identity once it is built
C14_IdentityFixedOnceBuilt ==
    /\ [](\A r \in Requests : HasIdentity(r) => BuiltUnderConfigAtBuild(r))
    /\ [][\A r \in Requests :
            HasIdentity(r) => /\ user'[r] = user[r]
                              /\ configAtBuild'[r] = configAtBuild[r]
                              /\ handlerCalls'[r] = handlerCalls[r]]_vars

C14_Witness ==
    /\ pc["r1"] = "handler"
    /\ pc["r2"] = "handler"
    /\ event["r1"] = RestEvent(ClaimsObject(ClaimsFull))
    /\ event["r2"] = event["r1"]
    /\ configAtBuild["r1"] = defaultConfig
    /\ user["r1"].groups = << <<"a">>, <<"b">> >>
    /\ user["r1"].scopes = << <<"a">>, <<"c">> >>
    /\ configAtBuild["r2"] = [groupClaimKey |-> "roles", scopeClaimKey |-> "permissions"]
    /\ user["r2"].groups = << <<"c">> >>
    /\ user["r2"].scopes = <<>>
    /\ Config = defaultConfig

=============================================================================
